---- MODULE Spec2Model ----
(***************************************************************************)
(* Model of microscope-cam-helper: the capture store endpoints of          *)
(* docker-microscope/web_server.py, the camera handles of the two          *)
(* camera_service.py files and the request handlers that use them.         *)
(***************************************************************************)
EXTENDS Integers, Sequences, FiniteSets, TLC

(***************************************************************************)
(* Bounds of the model.                                                    *)
(***************************************************************************)
\* longest "files" list of a batch request
MaxBatch == 2
\* number of distinct second-resolution timestamps, hence of capture names
MaxClock == 2

(***************************************************************************)
(* Paths.  A path is the sequence of its components below "/"; a caller-   *)
(* supplied filename is its '/'-split form: whether it starts with '/',    *)
(* and its components.  The file system holds no symbolic links, so        *)
(* Path.resolve() is the lexical normalisation that realpath performs.     *)
(***************************************************************************)
CapturesDir == <<"app", "captures">>

\* 'capture_<timestamp>.jpg' for the timestamps 1, 2, ...
CaptureNames ==
    <<"capture_1.jpg", "capture_2.jpg", "capture_3.jpg", "capture_4.jpg",
      "capture_5.jpg">>

CaptureName(t) == CaptureNames[t]

\* a component holding a NUL byte: os.lstat refuses it with ValueError
NulComponent == "nul_byte.jpg"

JpgComponents ==
    {CaptureNames[i] : i \in 1..Len(CaptureNames)} \cup
    {"other.jpg", "missing.jpg", NulComponent}

\* PurePath.suffix of a final component
Ext(c) ==
    IF c \in JpgComponents THEN ".jpg"
    ELSE IF c = "notes.txt" THEN ".txt"
    ELSE ""

Suffix(p) == IF p = <<>> THEN "" ELSE Ext(p[Len(p)])

\* captures_dir / filename: an absolute right operand replaces the left one
Join(dir, name) == IF name.abs THEN name.comps ELSE dir \o name.comps

RECURSIVE Normalize(_, _)
Normalize(done, rest) ==
    IF rest = <<>> THEN done
    ELSE LET c == Head(rest) IN
         IF c = "." THEN Normalize(done, Tail(rest))
         ELSE IF c = ".."
              THEN Normalize(IF done = <<>> THEN <<>>
                             ELSE SubSeq(done, 1, Len(done) - 1), Tail(rest))
              ELSE Normalize(Append(done, c), Tail(rest))

\* Path.resolve() (non-strict) of an absolute path
Resolve(p) == Normalize(<<>>, p)

\* Path.resolve() raises (ValueError, OSError) instead of returning
ResolveRaises(p) == \E i \in 1..Len(p) : p[i] = NulComponent

\* posixpath.normpath of a relative name: "x/.." collapses, a leading ".." stays
RECURSIVE NormRel(_, _)
NormRel(done, rest) ==
    IF rest = <<>> THEN done
    ELSE LET c == Head(rest) IN
         IF c = "." THEN NormRel(done, Tail(rest))
         ELSE IF c = ".." /\ done # <<>> /\ done[Len(done)] # ".."
              THEN NormRel(SubSeq(done, 1, Len(done) - 1), Tail(rest))
              ELSE NormRel(Append(done, c), Tail(rest))

\* PurePath.is_relative_to
IsRelativeToDropped(p, dir) == TRUE

IsRelativeTo(p, dir) ==
    /\ Len(p) >= Len(dir)
    /\ SubSeq(p, 1, Len(dir)) = dir

\* the regular files that may exist: captures, one foreign file in the
\* capture directory, one '.jpg' file outside of it
CaptureFiles == {CapturesDir \o <<CaptureName(t)>> : t \in 1..MaxClock}
NotesFile == CapturesDir \o <<"notes.txt">>
OutsideFile == <<"app", "other.jpg">>
AllFiles == CaptureFiles \cup {NotesFile, OutsideFile}
Dirs == {<<>>, <<"app">>, CapturesDir}

\* content 0: no such file
NoFile == 0

\* the content every file of the initial directory has
InitContent == 1

\* Path.exists()
Exists(f, p) == p \in Dirs \/ (p \in AllFiles /\ f[p] # NoFile)

IsFile(f, p) == p \in AllFiles /\ f[p] # NoFile

\* the filenames requests are made with
Rel(cs) == [abs |-> FALSE, comps |-> cs]
Abs(cs) == [abs |-> TRUE, comps |-> cs]

Names ==
    { Rel(<<CaptureName(1)>>),
      Rel(<<CaptureName(2)>>),
      Rel(<<"missing.jpg">>),
      Rel(<<"notes.txt">>),
      Rel(<<"..">>),
      Rel(<<"..", "other.jpg">>),
      Rel(<<"sub", "..", CaptureName(1)>>),
      Abs(CapturesDir \o <<CaptureName(2)>>),
      Abs(OutsideFile),
      Rel(<<NulComponent>>) }

RECURSIVE SeqsUpTo(_, _)
SeqsUpTo(S, n) ==
    IF n = 0 THEN {<<>>}
    ELSE LET shorter == SeqsUpTo(S, n - 1) IN
         shorter \cup {Append(s, x) : s \in {t \in shorter : Len(t) = n - 1}, x \in S}

FileLists == SeqsUpTo(Names, MaxBatch)

VARIABLES
    fs,      \* the regular files: path -> content (NoFile: absent)
    resp,    \* the last response of a capture store endpoint, with its trace
    cam,     \* CameraService.camera: "None", "closedObj" or "openObj"
    v4l,     \* the number of open sessions on the video device
    csi,     \* a CSICameraService: its process attribute and that process
    hist,    \* the last call made on a handle, with its trace
    boot,    \* main() of the microscope server: "init", then "serving"
    clock,   \* datetime.now(), in seconds
    strm,    \* the /stream responses of the microscope server, per client
    req,     \* the requests of the CSI server, each with its CSICameraService
    csiFs,   \* the capture files of the CSI server: timestamp -> content
    rd,      \* the request threads that are inside self.camera.read()
    cap,     \* the /capture requests in flight, each on its thread
    rc       \* threads calling read_frame() and stop() on one CameraService

storeVars == <<fs, resp>>
lifeVars == <<cam, v4l, csi, hist>>
serverVars == <<boot, clock, strm, rd, cap, rc>>
csiVars == <<req, csiFs>>
vars ==
    <<fs, resp, cam, v4l, csi, hist, boot, clock, strm, req, csiFs, rd, cap, rc>>

(***************************************************************************)
(* Responses.  Every capture store endpoint leaves its response and, as    *)
(* history, what it did name by name: log[i] is the outcome of the i-th    *)
(* name and the path it resolved to; before is the file system the request *)
(* found.                                                                  *)
(***************************************************************************)
Entry(name, path, outcome) == [name |-> name, path |-> path, outcome |-> outcome]

NoResp ==
    [op |-> "none", files |-> <<>>, status |-> 0, log |-> <<>>, deleted |-> 0,
     requested |-> 0, counts |-> FALSE, entries |-> <<>>, listing |-> <<>>,
     before |-> [p \in AllFiles |-> NoFile]]

(***************************************************************************)
(* list_captures: sorted(names of captures_dir.glob('*.jpg'), reverse)     *)
(***************************************************************************)
Glob(f) ==
    {p[Len(p)] : p \in {q \in AllFiles :
                          /\ f[q] # NoFile
                          /\ Len(q) = Len(CapturesDir) + 1
                          /\ SubSeq(q, 1, Len(CapturesDir)) = CapturesDir
                          /\ Ext(q[Len(q)]) = ".jpg"}}

\* the clock tick a capture name was made at
Rank(c) == CHOOSE i \in 1..Len(CaptureNames) : CaptureNames[i] = c

\* the seconds field of datetime.now() at a tick: the ticks cross a carry
Seconds(t) == 8 + t

\* '%S' without its zero padding
StampUnpadded(t) ==
    IF Seconds(t) < 10 THEN <<Seconds(t)>>
    ELSE <<Seconds(t) \div 10, Seconds(t) % 10>>

\* strftime('%Y%m%d_%H%M%S'): fixed-width, zero-padded decimal fields; the
\* digits of the field that differs between the names
Stamp(t) == <<Seconds(t) \div 10, Seconds(t) % 10>>

\* str.__lt__ on digit strings followed by '.jpg' ('.' sorts before '0')
RECURSIVE StrLess(_, _)
StrLess(a, b) ==
    IF b = <<>> THEN FALSE
    ELSE IF a = <<>> THEN TRUE
    ELSE IF Head(a) # Head(b) THEN Head(a) < Head(b)
    ELSE StrLess(Tail(a), Tail(b))

\* the order of str on the capture names
NameLess(c, d) == StrLess(Stamp(Rank(c)), Stamp(Rank(d)))

\* sorted(..., reverse=True)
RECURSIVE SortedDesc(_)
SortedDesc(S) ==
    IF S = {} THEN <<>>
    ELSE LET top == CHOOSE x \in S : \A y \in S : ~NameLess(x, y)
         IN <<top>> \o SortedDesc(S \ {top})

ListNames(f) == SortedDesc(Glob(f))

\* the endpoints answer one request after the other
Idle == resp.op = "none"

ListCaptures ==
    /\ Idle
    /\ resp' = [NoResp EXCEPT !.op = "list", !.status = 200,
                              !.listing = ListNames(fs), !.before = fs]
    /\ UNCHANGED <<fs, lifeVars, serverVars, csiVars>>

(***************************************************************************)
(* get_capture: GET /captures/<filename>                                   *)
(***************************************************************************)
\* the route's <filename> is one URL segment: it never holds a '/'
RouteMatches(name) == ~name.abs /\ Len(name.comps) = 1

\* werkzeug's safe_join under send_from_directory: no path for an absolute
\* name or one that, normalised, starts with '..'
SafeJoinOk(name) ==
    LET n == NormRel(<<>>, name.comps)
    IN ~name.abs /\ ~(n # <<>> /\ n[1] = "..")

\* send_from_directory(directory, filename): the file's bytes, or NotFound
SendFromDirectory(f, dir, name) ==
    LET p == dir \o NormRel(<<>>, name.comps)
    IN IF SafeJoinOk(name) /\ IsFile(f, p)
       THEN [status |-> 200, path |-> p]
       ELSE [status |-> 404, path |-> <<>>]

GetCaptureOutcome(f, filename) ==
    IF ~RouteMatches(filename) THEN [status |-> 404, path |-> <<>>, outcome |-> "unrouted"]
    ELSE LET joined == Join(CapturesDir, filename) IN
         IF ResolveRaises(joined)
         THEN [status |-> 400, path |-> <<>>, outcome |-> "rejected"]
         ELSE LET filepath == Resolve(joined) IN
              IF ~IsRelativeTo(filepath, CapturesDir)
              THEN [status |-> 400, path |-> filepath, outcome |-> "rejected"]
              ELSE IF ~Exists(f, filepath) \/ Suffix(filepath) # ".jpg"
              THEN [status |-> 404, path |-> filepath, outcome |-> "notfound"]
              ELSE LET sent == SendFromDirectory(f, CapturesDir, filename) IN
                   IF sent.status = 200
                   THEN [status |-> 200, path |-> sent.path, outcome |-> "served"]
                   ELSE [status |-> 404, path |-> filepath, outcome |-> "notfound"]

GetCapture(filename) ==
    LET r == GetCaptureOutcome(fs, filename) IN
    /\ Idle
    /\ resp' = [NoResp EXCEPT !.op = "view", !.files = <<filename>>,
                              !.status = r.status,
                              !.log = <<Entry(filename, r.path, r.outcome)>>,
                              !.before = fs]
    /\ UNCHANGED <<fs, lifeVars, serverVars, csiVars>>

(***************************************************************************)
(* batch_download: POST /batch/download                                    *)
(***************************************************************************)
\* ZipFile.write(filepath, arcname): the entry's name is the normalised
\* arcname without its leading '/'
ArcName(name) == NormRel(<<>>, name.comps)

DownloadStep(st, filename) ==
    LET joined == Join(CapturesDir, filename) IN
    IF ResolveRaises(joined)
    THEN [st EXCEPT !.raised = TRUE,
                    !.log = Append(@, Entry(filename, <<>>, "raised"))]
    ELSE LET filepath == Resolve(joined) IN
         IF ~IsRelativeTo(filepath, CapturesDir)
         THEN [st EXCEPT !.log = Append(@, Entry(filename, filepath, "rejected"))]
         ELSE IF Exists(st.fs, filepath) /\ Suffix(filepath) = ".jpg"
         THEN [st EXCEPT !.log = Append(@, Entry(filename, filepath, "archived")),
                         !.entries = Append(@, [arcname |-> ArcName(filename),
                                                data |-> st.fs[filepath]])]
         ELSE [st EXCEPT !.log = Append(@, Entry(filename, filepath, "skipped"))]

RECURSIVE DownloadFrom(_, _)
DownloadFrom(st, files) ==
    IF files = <<>> \/ st.raised THEN st
    ELSE DownloadFrom(DownloadStep(st, Head(files)), Tail(files))

BatchDownload(files) ==
    /\ Idle
    /\ UNCHANGED <<fs, lifeVars, serverVars, csiVars>>
    /\ IF files = <<>>
       THEN resp' = [NoResp EXCEPT !.op = "batch_download", !.status = 400,
                                   !.before = fs]
       ELSE LET st == DownloadFrom([fs |-> fs, deleted |-> 0, log |-> <<>>,
                                    entries |-> <<>>, raised |-> FALSE], files)
            IN resp' = [NoResp EXCEPT !.op = "batch_download", !.files = files,
                                      !.status = IF st.raised THEN 500 ELSE 200,
                                      !.log = st.log,
                                      !.entries = IF st.raised THEN <<>> ELSE st.entries,
                                      !.before = fs]

(***************************************************************************)
(* batch_delete: POST /batch/delete.  denied: the paths os.remove fails on *)
(***************************************************************************)
\* batch_delete without its is_relative_to test
DeleteStepUnchecked(st, filename, denied) ==
    LET joined == Join(CapturesDir, filename) IN
    IF ResolveRaises(joined)
    THEN [st EXCEPT !.raised = TRUE,
                    !.log = Append(@, Entry(filename, <<>>, "raised"))]
    ELSE LET filepath == Resolve(joined) IN
         IF Exists(st.fs, filepath) /\ Suffix(filepath) = ".jpg"
         THEN IF filepath \in denied
              THEN [st EXCEPT !.log = Append(@, Entry(filename, filepath, "failed"))]
              ELSE [st EXCEPT !.fs = [@ EXCEPT ![filepath] = NoFile],
                              !.deleted = @ + 1,
                              !.log = Append(@, Entry(filename, filepath, "deleted"))]
         ELSE [st EXCEPT !.log = Append(@, Entry(filename, filepath, "skipped"))]

\* batch_delete without its '.jpg' test
DeleteStepAnySuffix(st, filename, denied) ==
    LET joined == Join(CapturesDir, filename) IN
    IF ResolveRaises(joined)
    THEN [st EXCEPT !.raised = TRUE,
                    !.log = Append(@, Entry(filename, <<>>, "raised"))]
    ELSE LET filepath == Resolve(joined) IN
         IF ~IsRelativeTo(filepath, CapturesDir)
         THEN [st EXCEPT !.log = Append(@, Entry(filename, filepath, "rejected"))]
         ELSE IF IsFile(st.fs, filepath)
         THEN [st EXCEPT !.fs = [@ EXCEPT ![filepath] = NoFile],
                         !.deleted = @ + 1,
                         !.log = Append(@, Entry(filename, filepath, "deleted"))]
         ELSE [st EXCEPT !.log = Append(@, Entry(filename, filepath, "skipped"))]

DeleteStep(st, filename, denied) ==
    LET joined == Join(CapturesDir, filename) IN
    IF ResolveRaises(joined)
    THEN [st EXCEPT !.raised = TRUE,
                    !.log = Append(@, Entry(filename, <<>>, "raised"))]
    ELSE LET filepath == Resolve(joined) IN
         IF ~IsRelativeTo(filepath, CapturesDir)
         THEN [st EXCEPT !.log = Append(@, Entry(filename, filepath, "rejected"))]
         ELSE IF Exists(st.fs, filepath) /\ Suffix(filepath) = ".jpg"
         THEN IF filepath \in denied
              THEN [st EXCEPT !.log = Append(@, Entry(filename, filepath, "failed"))]
              ELSE [st EXCEPT !.fs = [@ EXCEPT ![filepath] = NoFile],
                              !.deleted = @ + 1,
                              !.log = Append(@, Entry(filename, filepath, "deleted"))]
         ELSE [st EXCEPT !.log = Append(@, Entry(filename, filepath, "skipped"))]

RECURSIVE DeleteFrom(_, _, _)
DeleteFrom(st, files, denied) ==
    IF files = <<>> \/ st.raised THEN st
    ELSE DeleteFrom(DeleteStep(st, Head(files), denied), Tail(files), denied)

BatchDelete(files, denied) ==
    /\ Idle
    /\ UNCHANGED <<lifeVars, serverVars, csiVars>>
    /\ IF files = <<>>
       THEN
         /\ resp' = [NoResp EXCEPT !.op = "batch_delete", !.status = 400,
                                   !.before = fs]
         /\ UNCHANGED fs
       ELSE
         LET st == DeleteFrom([fs |-> fs, deleted |-> 0, log |-> <<>>,
                               entries |-> <<>>, raised |-> FALSE], files, denied)
         IN /\ fs' = st.fs
            /\ resp' = [NoResp EXCEPT !.op = "batch_delete", !.files = files,
                                      !.status = IF st.raised THEN 500 ELSE 200,
                                      !.log = st.log,
                                      !.counts = ~st.raised,
                                      !.deleted = IF st.raised THEN 0 ELSE st.deleted,
                                      !.requested = IF st.raised THEN 0 ELSE Len(files),
                                      !.before = fs]

(***************************************************************************)
(* CameraService (docker-microscope/camera_service.py).  The handle is its *)
(* camera attribute; v is the number of sessions open on the video device. *)
(* canOpen and canRead are what the device does when asked.                *)
(***************************************************************************)
\* frames read and discarded by start()
WarmupFrames == 3

\* the bytes of a frame; 0 stands for None
NoFrame == 0

IsOpened(c) == c = "openObj"

Sessions(c) == IF IsOpened(c) THEN 1 ELSE 0

\* the warm-up loop of start(): reads whose results are dropped
Warmup == [i \in 1..WarmupFrames |-> "discard"]

\* start() that returns True once the warm-up is over, without a test read
CamStartUnverified(c, v, canOpen, canRead) ==
    IF ~canOpen
    THEN [camera |-> "closedObj", v4l |-> v - Sessions(c), result |-> FALSE,
          reads |-> 0, calls |-> <<"open">>]
    ELSE [camera |-> "openObj", v4l |-> v - Sessions(c) + 1, result |-> TRUE,
          reads |-> WarmupFrames, calls |-> <<"open">> \o Warmup]

\* start(): the new VideoCapture replaces the one held before; calls: what
\* start() did on the device, in order
CamStart(c, v, canOpen, canRead) ==
    IF ~canOpen
    THEN [camera |-> "closedObj", v4l |-> v - Sessions(c), result |-> FALSE,
          reads |-> 0, calls |-> <<"open">>]
    ELSE [camera |-> "openObj", v4l |-> v - Sessions(c) + 1, result |-> canRead,
          reads |-> WarmupFrames + 1,
          calls |-> <<"open">> \o Warmup
                    \o <<IF canRead THEN "read_ok" ELSE "read_failed">>]

\* read_frame(): a frame, or None
CamReadFrame(c, canRead, frame) ==
    IF c = "None" \/ ~IsOpened(c) THEN NoFrame
    ELSE IF ~canRead THEN NoFrame
    ELSE frame

\* stop() without its "if self.camera" guard
CamStopUnguarded(c, v) ==
    IF c = "None"
    THEN [camera |-> c, v4l |-> v, raised |-> TRUE, calls |-> <<"release">>]
    ELSE [camera |-> "None", v4l |-> v - Sessions(c), raised |-> FALSE,
          calls |-> <<"release">>]

\* stop()
CamStop(c, v) ==
    IF c # "None"
    THEN [camera |-> "None", v4l |-> v - Sessions(c), raised |-> FALSE,
          calls |-> <<"release">>]
    ELSE [camera |-> c, v4l |-> v, raised |-> FALSE, calls |-> <<>>]

(***************************************************************************)
(* CSICameraService (csi-camera/camera_service.py).  A handle is its       *)
(* process attribute ("None" or "held") and the state of the rpicam-vid    *)
(* process it refers to ("none", "running" or "exited").                   *)
(***************************************************************************)
NoProcess == [process |-> "None", state |-> "none"]

\* start(): popenOk, whether Popen returns; staysUp, whether the process is
\* still running when it is polled a second later
CsiSpawn(h, popenOk) ==
    IF popenOk THEN [h |-> [process |-> "held", state |-> "running"], spawned |-> TRUE]
    ELSE [h |-> h, spawned |-> FALSE]

\* self.process.poll() is None
CsiAlive(h) == h.state = "running"

CsiStart(h, popenOk, staysUp) ==
    LET sp == CsiSpawn(h, popenOk)
        polled == IF staysUp THEN sp.h ELSE [sp.h EXCEPT !.state = "exited"]
    IN IF ~sp.spawned
       THEN [h |-> h, result |-> FALSE, spawned |-> FALSE, calls |-> <<"Popen">>]
       ELSE [h |-> polled, result |-> CsiAlive(polled), spawned |-> TRUE,
             calls |-> <<"Popen", "sleep", "poll">>]

\* stop() that force-kills without waiting
CsiStopKillAlways(h, graceful) ==
    IF h.process # "None"
    THEN [h |-> NoProcess, raised |-> FALSE, timedOut |-> FALSE,
          calls |-> <<"terminate", "kill">>]
    ELSE [h |-> h, raised |-> FALSE, timedOut |-> FALSE, calls |-> <<>>]

\* stop(): graceful, whether a running process exits within the 5 s wait
CsiStop(h, graceful) ==
    IF h.process # "None"
    THEN LET timedOut == h.state = "running" /\ ~graceful IN
         [h |-> NoProcess, raised |-> FALSE, timedOut |-> timedOut,
          calls |-> IF timedOut THEN <<"terminate", "wait", "kill">>
                    ELSE <<"terminate", "wait">>]
    ELSE [h |-> h, raised |-> FALSE, timedOut |-> FALSE, calls |-> <<>>]

(***************************************************************************)
(* The handles under any sequence of start, read_frame and stop calls.     *)
(***************************************************************************)
\* consecutive calls of one method on one handle that are told apart
MaxRepeat == 2

NoCall ==
    [obj |-> "none", op |-> "none", result |-> FALSE, raised |-> FALSE,
     calls |-> <<>>, timedOut |-> FALSE, repeat |-> 0, changed |-> FALSE,
     pre |-> "none", frame |-> NoFrame]

Repeat(obj, op) ==
    IF hist.obj = obj /\ hist.op = op
    THEN (IF hist.repeat < MaxRepeat THEN hist.repeat + 1 ELSE MaxRepeat)
    ELSE 1

Frames == {1, 2}

InitLife ==
    /\ cam = "None"
    /\ v4l = 0
    /\ csi = NoProcess
    /\ hist = NoCall

CallCamStart(canOpen, canRead) ==
    LET r == CamStart(cam, v4l, canOpen, canRead) IN
    /\ cam' = r.camera
    /\ v4l' = r.v4l
    /\ hist' = [NoCall EXCEPT !.obj = "cam", !.op = "start", !.result = r.result,
                              !.calls = r.calls,
                              !.repeat = Repeat("cam", "start"),
                              !.changed = (r.camera # cam), !.pre = cam]
    /\ UNCHANGED <<csi, storeVars, serverVars, csiVars>>

\* a read_frame() that gives the camera up when the read fails
CallCamReadFrameReleases(canRead, frame) ==
    LET f == CamReadFrame(cam, canRead, frame)
        r == CamStop(cam, v4l)
    IN /\ hist' = [NoCall EXCEPT !.obj = "cam", !.op = "read",
                                 !.result = (f # NoFrame), !.frame = f,
                                 !.repeat = Repeat("cam", "read"), !.pre = cam]
       /\ cam' = IF f = NoFrame THEN r.camera ELSE cam
       /\ v4l' = IF f = NoFrame THEN r.v4l ELSE v4l
       /\ UNCHANGED <<csi, storeVars, serverVars, csiVars>>

CallCamReadFrame(canRead, frame) ==
    LET f == CamReadFrame(cam, canRead, frame) IN
    /\ hist' = [NoCall EXCEPT !.obj = "cam", !.op = "read",
                              !.result = (f # NoFrame), !.frame = f,
                              !.repeat = Repeat("cam", "read"), !.pre = cam]
    /\ UNCHANGED <<cam, v4l, csi, storeVars, serverVars, csiVars>>

CallCamStop ==
    LET r == CamStop(cam, v4l) IN
    /\ cam' = r.camera
    /\ v4l' = r.v4l
    /\ hist' = [NoCall EXCEPT !.obj = "cam", !.op = "stop", !.raised = r.raised,
                              !.calls = r.calls,
                              !.repeat = Repeat("cam", "stop"),
                              !.changed = (r.camera # cam), !.pre = cam]
    /\ UNCHANGED <<csi, storeVars, serverVars, csiVars>>

\* the servers start an instance once: no start over a running process
CallCsiStart(popenOk, staysUp) ==
    LET r == CsiStart(csi, popenOk, staysUp) IN
    /\ csi.state # "running"
    /\ csi' = r.h
    /\ hist' = [NoCall EXCEPT !.obj = "csi", !.op = "start", !.result = r.result,
                              !.calls = r.calls,
                              !.repeat = Repeat("csi", "start"),
                              !.changed = (r.h # csi), !.pre = csi.state]
    /\ UNCHANGED <<cam, v4l, storeVars, serverVars, csiVars>>

\* self.process.stdout.read(4096) in generate_stream(): a chunk of a running
\* process, b'' at the end of the pipe of an exited one; without a process
\* generate_stream() returns at once
CsiReadChunk(h) ==
    IF h.process = "None" THEN "none"
    ELSE IF CsiAlive(h) THEN "chunk"
    ELSE "eof"

\* one pull on generate_stream(): its loop ends on b'' and stops nothing
CallCsiRead ==
    /\ hist' = [NoCall EXCEPT !.obj = "csi", !.op = "read",
                              !.result = (CsiReadChunk(csi) = "chunk"),
                              !.repeat = Repeat("csi", "read"),
                              !.pre = csi.state]
    /\ UNCHANGED <<cam, v4l, csi, storeVars, serverVars, csiVars>>

\* rpicam-vid exits by itself
CsiProcessExits ==
    /\ csi.state = "running"
    /\ csi' = [csi EXCEPT !.state = "exited"]
    /\ hist' = NoCall
    /\ UNCHANGED <<cam, v4l, storeVars, serverVars, csiVars>>

CallCsiStop(graceful) ==
    LET r == CsiStop(csi, graceful) IN
    /\ csi' = r.h
    /\ hist' = [NoCall EXCEPT !.obj = "csi", !.op = "stop", !.raised = r.raised,
                              !.calls = r.calls, !.timedOut = r.timedOut,
                              !.repeat = Repeat("csi", "stop"),
                              !.changed = (r.h # csi), !.pre = csi.state]
    /\ UNCHANGED <<cam, v4l, storeVars, serverVars, csiVars>>

(***************************************************************************)
(* The microscope server (docker-microscope/web_server.py): main() starts  *)
(* the one CameraService, then /stream and /capture requests are served.   *)
(* hist keeps the result of main's camera.start(); hist.repeat counts the  *)
(* start() calls made.                                                     *)
(***************************************************************************)
\* encode failures of one /stream response that are told apart
MaxSkips == 2
\* clients holding a /stream response
MaxClients == 2
\* chunks of one /stream response that are told apart
MaxChunks == 2

Clients == 1..MaxClients

NoStream ==
    [pc |-> "idle", status |-> 0, chunks |-> 0, started |-> FALSE,
     devOpen |-> FALSE, afterFailedStart |-> FALSE, closedBy |-> "none",
     skips |-> 0]

\* /capture requests in flight at the same time
MaxCaptures == 2

CaptureThreads == 1..MaxCaptures

\* a /capture request: where its thread is, the frame it read, the file it
\* writes and its answer
NoCapture == [pc |-> "idle", frame |-> NoFrame, path |-> <<>>, status |-> 0]

\* threads calling read_frame() on the one CameraService
MaxReaders == 2

Readers == 1..MaxReaders

\* a reader: where it is in read_frame() and what it got; stop: where the
\* thread calling stop() is
NoReader == [pc |-> "idle", result |-> "none", handle |-> "none"]

NoRace == [readers |-> [t \in Readers |-> NoReader], stop |-> "idle"]

InitServer ==
    /\ cap = [k \in CaptureThreads |-> NoCapture]
    /\ rc = NoRace
    /\ boot = "init"
    /\ clock = 1
    /\ strm = [c \in Clients |-> NoStream]
    /\ rd = {}

\* cv2.imencode / cv2.imwrite of a frame at a JPEG quality
JpegBytes(frame, quality) == frame * 100 + quality

CaptureQuality == 95

\* main(): camera = get_camera_service(); camera.start()
MainStart(canOpen, canRead) ==
    LET r == CamStart(cam, v4l, canOpen, canRead) IN
    /\ boot = "init"
    /\ boot' = "serving"
    /\ cam' = r.camera
    /\ v4l' = r.v4l
    /\ hist' = [NoCall EXCEPT !.obj = "cam", !.op = "start", !.result = r.result,
                              !.calls = r.calls,
                              !.repeat = Repeat("cam", "start"),
                              !.changed = (r.camera # cam), !.pre = cam]
    /\ UNCHANGED <<fs, resp, csi, clock, strm, rd, cap, rc, csiVars>>

StartFailed == hist.op = "start" /\ ~hist.result

\* stream(): Response(camera.generate_stream(), ...): the status line is 200,
\* the generator has not run yet
Stream(c) ==
    /\ boot = "serving"
    /\ strm[c].pc = "idle"
    /\ strm' = [strm EXCEPT ![c] = [NoStream EXCEPT !.pc = "streaming",
                                                    !.status = 200,
                                                    !.devOpen = IsOpened(cam),
                                                    !.afterFailedStart = StartFailed]]
    /\ UNCHANGED <<fs, resp, cam, v4l, csi, hist, boot, clock, rd, cap, rc,
                   csiVars>>

\* generate_stream() with "break" in place of "continue" after imencode
StreamNextEncodeEnds(c, canRead, frame, encoded) ==
    /\ strm[c].pc = "streaming"
    /\ strm[c].chunks < MaxChunks
    /\ IF ~strm[c].started /\ (cam = "None" \/ ~IsOpened(cam))
       THEN strm' = [strm EXCEPT ![c].pc = "ended", ![c].started = TRUE,
                                 ![c].closedBy = "server"]
       ELSE IF CamReadFrame(cam, canRead, frame) = NoFrame
       THEN strm' = [strm EXCEPT ![c].pc = "ended", ![c].started = TRUE,
                                 ![c].closedBy = "server"]
       ELSE IF ~encoded
       THEN strm' = [strm EXCEPT ![c].started = TRUE, ![c].pc = "ended",
                                 ![c].closedBy = "server",
                                 ![c].skips = IF @ < MaxSkips THEN @ + 1 ELSE @]
       ELSE strm' = [strm EXCEPT ![c].started = TRUE, ![c].chunks = @ + 1]
    /\ UNCHANGED <<fs, resp, cam, v4l, csi, hist, boot, clock, rd, cap, rc,
                   csiVars>>

\* one pull of the response on generate_stream(): up to its next yield, or
\* once round its loop when the frame could not be encoded
StreamNext(c, canRead, frame, encoded) ==
    /\ strm[c].pc = "streaming"
    /\ strm[c].chunks < MaxChunks
    /\ IF ~strm[c].started /\ (cam = "None" \/ ~IsOpened(cam))
       THEN strm' = [strm EXCEPT ![c].pc = "ended", ![c].started = TRUE,
                                 ![c].closedBy = "server"]
       ELSE IF CamReadFrame(cam, canRead, frame) = NoFrame
       THEN strm' = [strm EXCEPT ![c].pc = "ended", ![c].started = TRUE,
                                 ![c].closedBy = "server"]
       ELSE IF ~encoded
       THEN strm' = [strm EXCEPT ![c].started = TRUE,
                                 ![c].skips = IF @ < MaxSkips THEN @ + 1 ELSE @]
       ELSE strm' = [strm EXCEPT ![c].started = TRUE, ![c].chunks = @ + 1]
    /\ UNCHANGED <<fs, resp, cam, v4l, csi, hist, boot, clock, rd, cap, rc,
                   csiVars>>

\* a disconnect that releases the camera, as a handler with
\* "finally: camera.stop()" around the shared service would
DisconnectStopsDevice(c) ==
    /\ strm[c].pc = "streaming"
    /\ c \notin rd
    /\ strm' = [strm EXCEPT ![c].pc = "ended", ![c].closedBy = "client"]
    /\ cam' = CamStop(cam, v4l).camera
    /\ v4l' = CamStop(cam, v4l).v4l
    /\ UNCHANGED <<fs, resp, csi, hist, boot, clock, rd, cap, rc, csiVars>>

\* the client goes away: the write fails and the response closes the
\* generator, which is left at its yield (or before its first statement)
Disconnect(c) ==
    /\ strm[c].pc = "streaming"
    /\ c \notin rd
    /\ strm' = [strm EXCEPT ![c].pc = "ended", ![c].closedBy = "client"]
    /\ UNCHANGED <<fs, resp, cam, v4l, csi, hist, boot, clock, rd, cap, rc,
                   csiVars>>

\* the connection of an ended response is gone
Forget(c) ==
    /\ strm[c].pc = "ended"
    /\ strm' = [strm EXCEPT ![c] = NoStream]
    /\ UNCHANGED <<fs, resp, cam, v4l, csi, hist, boot, clock, rd, cap, rc,
                   csiVars>>

\* capture(): camera.capture_image(), then the JSON answer.  written: whether
\* cv2.imwrite stores the file (it reports a failure by its return value,
\* which capture_image does not read)
CaptureImage(canRead, frame, written) ==
    LET f == CamReadFrame(cam, canRead, frame)
        filename == CaptureName(clock)
        filepath == CapturesDir \o <<filename>>
    IN /\ IF f = NoFrame
          THEN /\ resp' = [NoResp EXCEPT !.op = "capture", !.status = 500,
                                         !.before = fs]
               /\ UNCHANGED fs
          ELSE /\ fs' = IF written
                        THEN [fs EXCEPT ![filepath] = JpegBytes(f, CaptureQuality)]
                        ELSE fs
               /\ resp' = [NoResp EXCEPT !.op = "capture", !.status = 200,
                                         !.files = <<Rel(<<filename>>)>>,
                                         !.log = <<Entry(Rel(<<filename>>), filepath,
                                                         IF written THEN "written"
                                                         ELSE "unwritten")>>,
                                         !.before = fs]

Capture(canRead, frame, written) ==
    /\ boot = "serving"
    /\ Idle
    /\ CaptureImage(canRead, frame, written)
    /\ UNCHANGED <<cam, v4l, csi, hist, boot, clock, strm, rd, cap, rc,
                   csiVars>>

\* a second passes
Tick ==
    /\ clock < MaxClock
    /\ clock' = clock + 1
    /\ UNCHANGED <<fs, resp, cam, v4l, csi, hist, boot, strm, rd, cap, rc,
                   csiVars>>

(***************************************************************************)
(* The same requests with the device read as a step of its own.  The       *)
(* server runs threaded (run_simple(..., threaded=True)): every request    *)
(* has its thread, and a thread that called self.camera.read() is in rd    *)
(* until the read returns.                                                 *)
(***************************************************************************)
\* the thread of the /capture request
CaptureThread == 0

\* generate_stream()/read_frame() of session c up to self.camera.read();
\* on a camera that is not open the generator returns
StreamReadEnter(c) ==
    /\ strm[c].pc = "streaming"
    /\ strm[c].chunks < MaxChunks
    /\ c \notin rd
    /\ IF cam = "None" \/ ~IsOpened(cam)
       THEN /\ strm' = [strm EXCEPT ![c].pc = "ended", ![c].started = TRUE,
                                    ![c].closedBy = "server"]
            /\ UNCHANGED rd
       ELSE /\ strm' = [strm EXCEPT ![c].started = TRUE]
            /\ rd' = rd \cup {c}
    /\ UNCHANGED <<fs, resp, cam, v4l, csi, hist, boot, clock, cap, rc,
                   csiVars>>

\* self.camera.read() of session c returns: the pull goes on to its yield,
\* to the end of the generator, or round the loop
StreamReadReturn(c, canRead, frame, encoded) ==
    /\ c \in rd
    /\ rd' = rd \ {c}
    /\ IF CamReadFrame(cam, canRead, frame) = NoFrame
       THEN strm' = [strm EXCEPT ![c].pc = "ended", ![c].closedBy = "server"]
       ELSE IF ~encoded
       THEN strm' = [strm EXCEPT ![c].skips = IF @ < MaxSkips THEN @ + 1 ELSE @]
       ELSE strm' = [strm EXCEPT ![c].chunks = @ + 1]
    /\ UNCHANGED <<fs, resp, cam, v4l, csi, hist, boot, clock, cap, rc,
                   csiVars>>

\* capture()/capture_image()/read_frame() up to self.camera.read(); on a
\* camera that is not open read_frame returns None and the answer is 500
CaptureReadEnter ==
    /\ boot = "serving"
    /\ Idle
    /\ CaptureThread \notin rd
    /\ IF cam = "None" \/ ~IsOpened(cam)
       THEN /\ CaptureImage(FALSE, NoFrame, FALSE)
            /\ UNCHANGED rd
       ELSE /\ rd' = rd \cup {CaptureThread}
            /\ UNCHANGED <<fs, resp>>
    /\ UNCHANGED <<cam, v4l, csi, hist, boot, clock, strm, cap, rc, csiVars>>

\* self.camera.read() of the capture returns: the file is written and the
\* request answered
CaptureReadReturn(canRead, frame, written) ==
    /\ CaptureThread \in rd
    /\ rd' = rd \ {CaptureThread}
    /\ CaptureImage(canRead, frame, written)
    /\ UNCHANGED <<cam, v4l, csi, hist, boot, clock, strm, cap, rc, csiVars>>

(***************************************************************************)
(* Concurrent /capture requests, statement by statement: capture_image()   *)
(* reads a frame, names the file after the clock and has cv2.imwrite write *)
(* it; imwrite opens the file under its final name and fills it.           *)
(***************************************************************************)
\* the content of a file that imwrite has opened and not yet completed
PartialBytes(frame) == 0 - JpegBytes(frame, CaptureQuality)

\* capture(): camera.capture_image() up to self.camera.read()
CapBegin(k) ==
    /\ boot = "serving"
    /\ cap[k].pc = "idle"
    /\ IF cam = "None" \/ ~IsOpened(cam)
       THEN cap' = [cap EXCEPT ![k].pc = "done", ![k].status = 500]
       ELSE cap' = [cap EXCEPT ![k].pc = "read"]
    /\ UNCHANGED <<fs, resp, cam, v4l, csi, hist, boot, clock, strm, rd, rc,
                   csiVars>>

\* self.camera.read() returns
CapRead(k, canRead, frame) ==
    LET f == CamReadFrame(cam, canRead, frame) IN
    /\ cap[k].pc = "read"
    /\ IF f = NoFrame
       THEN cap' = [cap EXCEPT ![k].pc = "done", ![k].status = 500]
       ELSE cap' = [cap EXCEPT ![k].pc = "write", ![k].frame = f]
    /\ UNCHANGED <<fs, resp, cam, v4l, csi, hist, boot, clock, strm, rd, rc,
                   csiVars>>

\* the name is taken from the clock and cv2.imwrite opens the file; opens:
\* whether it can (its False is not looked at, the answer is 'ok')
CapWriteBegin(k, opens) ==
    LET filepath == CapturesDir \o <<CaptureName(clock)>> IN
    /\ cap[k].pc = "write"
    /\ IF opens
       THEN /\ fs' = [fs EXCEPT ![filepath] = PartialBytes(cap[k].frame)]
            /\ cap' = [cap EXCEPT ![k].pc = "writing", ![k].path = filepath]
       ELSE /\ cap' = [cap EXCEPT ![k].pc = "done", ![k].path = filepath,
                                  ![k].status = 200]
            /\ UNCHANGED fs
    /\ UNCHANGED <<resp, cam, v4l, csi, hist, boot, clock, strm, rd, rc,
                   csiVars>>

\* cv2.imwrite returns with the file complete; capture() answers 'ok'
CapWriteEnd(k) ==
    /\ cap[k].pc = "writing"
    /\ fs' = [fs EXCEPT ![cap[k].path] = JpegBytes(cap[k].frame, CaptureQuality)]
    /\ cap' = [cap EXCEPT ![k].pc = "done", ![k].status = 200]
    /\ UNCHANGED <<resp, cam, v4l, csi, hist, boot, clock, strm, rd, rc,
                   csiVars>>

\* the answer has gone to the client
CapForget(k) ==
    /\ cap[k].pc = "done"
    /\ cap' = [cap EXCEPT ![k] = NoCapture]
    /\ UNCHANGED <<fs, resp, cam, v4l, csi, hist, boot, clock, strm, rd, rc,
                   csiVars>>

(***************************************************************************)
(* read_frame() and stop() of one CameraService called from different      *)
(* threads, statement by statement.  Neither method takes a lock.          *)
(***************************************************************************)
\* read_frame(): "if not self.camera or not self.camera.isOpened()"
RaceCheck(t) ==
    /\ boot = "serving"
    /\ rc.readers[t].pc = "idle"
    /\ IF cam = "None" \/ ~IsOpened(cam)
       THEN rc' = [rc EXCEPT !.readers[t] = [NoReader EXCEPT !.pc = "done"]]
       ELSE rc' = [rc EXCEPT !.readers[t] = [NoReader EXCEPT !.pc = "checked"]]
    /\ UNCHANGED <<fs, resp, cam, v4l, csi, hist, boot, clock, strm, rd, cap,
                   csiVars>>

\* read_frame(): "success, frame = self.camera.read()" on whatever
\* self.camera is by now: None has no read(), a released VideoCapture
\* reads nothing
RaceRead(t, canRead) ==
    /\ rc.readers[t].pc = "checked"
    /\ rc' = [rc EXCEPT !.readers[t] =
                 [pc |-> "done",
                  result |-> IF cam = "None" THEN "AttributeError"
                             ELSE IF IsOpened(cam) /\ canRead THEN "frame"
                             ELSE "none",
                  handle |-> cam]]
    /\ UNCHANGED <<fs, resp, cam, v4l, csi, hist, boot, clock, strm, rd, cap,
                   csiVars>>

\* the caller has its frame, its None or its exception
RaceReturn(t) ==
    /\ rc.readers[t].pc = "done"
    /\ rc' = [rc EXCEPT !.readers[t] = NoReader]
    /\ UNCHANGED <<fs, resp, cam, v4l, csi, hist, boot, clock, strm, rd, cap,
                   csiVars>>

\* stop(): "if self.camera: self.camera.release()"
RaceStopRelease ==
    /\ boot = "serving"
    /\ rc.stop = "idle"
    /\ IF cam # "None"
       THEN /\ cam' = "closedObj"
            /\ v4l' = v4l - Sessions(cam)
            /\ rc' = [rc EXCEPT !.stop = "released"]
       ELSE /\ rc' = [rc EXCEPT !.stop = "done"]
            /\ UNCHANGED <<cam, v4l>>
    /\ UNCHANGED <<fs, resp, csi, hist, boot, clock, strm, rd, cap, csiVars>>

\* stop(): "self.camera = None"
RaceStopClear ==
    /\ rc.stop = "released"
    /\ cam' = "None"
    /\ rc' = [rc EXCEPT !.stop = "done"]
    /\ UNCHANGED <<fs, resp, v4l, csi, hist, boot, clock, strm, rd, cap,
                   csiVars>>

\* stop() has returned; it may be called again
RaceStopReturn ==
    /\ rc.stop = "done"
    /\ rc' = [rc EXCEPT !.stop = "idle"]
    /\ UNCHANGED <<fs, resp, cam, v4l, csi, hist, boot, clock, strm, rd, cap,
                   csiVars>>

(***************************************************************************)
(* The CSI server (csi-camera/web_server.py).  get_camera_service() makes  *)
(* a new CSICameraService for every request; request r holds it in         *)
(* req[r].h.  first: no start() had been called when the request came in;  *)
(* opened: the request called Popen for rpicam-vid; spawned: Popen         *)
(* returned a process.                                                     *)
(***************************************************************************)
\* requests the CSI server handles
MaxRequests == 2

Requests == 1..MaxRequests

\* no chunk written yet
NoChunk == [boundary |-> FALSE, header |-> FALSE, payload |-> "none"]

\* what generate_stream() yields: up to 4096 bytes of the output of
\* rpicam-vid as they come (JPEG images back to back), with no boundary
\* line and no part header around them
CsiChunk == [boundary |-> FALSE, header |-> FALSE, payload |-> "mjpeg bytes"]

NoRequest ==
    [kind |-> "none", pc |-> "new", h |-> NoProcess, status |-> 0, chunks |-> 0,
     started |-> FALSE, first |-> FALSE, opened |-> FALSE, spawned |-> FALSE,
     name |-> 0, lastChunk |-> NoChunk]

InitCsi ==
    /\ req = [r \in Requests |-> NoRequest]
    /\ csiFs = [t \in 1..MaxClock |-> NoFile]

NoOpenYet == \A q \in Requests : ~req[q].opened

\* stream(): camera = get_camera_service()
CsiStreamBegin(r) ==
    /\ req[r].pc = "new"
    /\ req' = [req EXCEPT ![r] = [NoRequest EXCEPT !.kind = "stream", !.pc = "start",
                                                   !.first = NoOpenYet]]
    /\ UNCHANGED <<storeVars, lifeVars, serverVars, csiFs>>

\* camera.start(): Popen, then time.sleep(1)
CsiStreamSpawn(r, popenOk) ==
    LET sp == CsiSpawn(req[r].h, popenOk) IN
    /\ req[r].pc = "start"
    /\ req' = [req EXCEPT ![r].h = sp.h,
                          ![r].opened = TRUE,
                          ![r].spawned = sp.spawned,
                          ![r].pc = IF sp.spawned THEN "sleep" ELSE "done",
                          ![r].status = IF sp.spawned THEN 0 ELSE 500]
    /\ UNCHANGED <<storeVars, lifeVars, serverVars, csiFs>>

\* camera.start(): the poll after the sleep, then the Response
CsiStreamPoll(r) ==
    /\ req[r].pc = "sleep"
    /\ req' = [req EXCEPT ![r].pc = IF CsiAlive(req[r].h) THEN "streaming" ELSE "done",
                          ![r].status = IF CsiAlive(req[r].h) THEN 200 ELSE 500]
    /\ UNCHANGED <<storeVars, lifeVars, serverVars, csiFs>>

\* generate(): one read of the pipe; at its end the finally clause stops
CsiStreamRead(r, graceful) ==
    /\ req[r].pc = "streaming"
    /\ req[r].chunks < MaxChunks
    /\ IF CsiAlive(req[r].h)
       THEN req' = [req EXCEPT ![r].chunks = @ + 1, ![r].started = TRUE,
                               ![r].lastChunk = CsiChunk]
       ELSE req' = [req EXCEPT ![r].h = CsiStop(req[r].h, graceful).h,
                               ![r].started = TRUE, ![r].pc = "done"]
    /\ UNCHANGED <<storeVars, lifeVars, serverVars, csiFs>>

\* the client goes away after a chunk: the generator is closed at its yield
\* and the finally clause stops the camera
CsiStreamClose(r, graceful) ==
    /\ req[r].pc = "streaming"
    /\ req[r].started
    /\ req' = [req EXCEPT ![r].h = CsiStop(req[r].h, graceful).h, ![r].pc = "done"]
    /\ UNCHANGED <<storeVars, lifeVars, serverVars, csiFs>>

\* the response is closed before generate() was pulled once (a HEAD request,
\* whose body is never iterated): closing a generator that has not started
\* does not enter its try block, so the finally clause does not run
CsiStreamAbandon(r) ==
    /\ req[r].pc = "streaming"
    /\ ~req[r].started
    /\ req' = [req EXCEPT ![r].pc = "done"]
    /\ UNCHANGED <<storeVars, lifeVars, serverVars, csiFs>>

\* rpicam-vid exits by itself
CsiProcExit(r) ==
    /\ CsiAlive(req[r].h)
    /\ req' = [req EXCEPT ![r].h.state = "exited"]
    /\ UNCHANGED <<storeVars, lifeVars, serverVars, csiFs>>

\* capture(): capture_image() names the file and runs rpicam-still
CsiCaptureRun(r) ==
    /\ req[r].pc = "new"
    /\ req' = [req EXCEPT ![r] = [NoRequest EXCEPT !.kind = "capture", !.pc = "still",
                                                   !.first = NoOpenYet,
                                                   !.name = clock]]
    /\ UNCHANGED <<storeVars, lifeVars, serverVars, csiFs>>

\* rpicam-still returns: with the file written, or with an error status
CsiCaptureDone(r, ok, frame) ==
    /\ req[r].pc = "still"
    /\ csiFs' = IF ok THEN [csiFs EXCEPT ![req[r].name] = JpegBytes(frame, CaptureQuality)]
                ELSE csiFs
    /\ req' = [req EXCEPT ![r].pc = "done",
                          ![r].status = IF ok THEN 200 ELSE 500]
    /\ UNCHANGED <<storeVars, lifeVars, serverVars>>

(***************************************************************************)
(* The capture store.  The capture directory outlives the process          *)
(* (mkdir(exist_ok=True)): it starts with any of its files present.        *)
(***************************************************************************)
InitStore ==
    /\ fs \in {f \in [AllFiles -> {NoFile, InitContent}] : f[OutsideFile] # NoFile}
    /\ resp = NoResp
    /\ InitLife
    /\ InitServer
    /\ InitCsi

\* the response has gone to the client
Deliver ==
    /\ ~Idle
    /\ resp' = NoResp
    /\ UNCHANGED <<fs, lifeVars, serverVars, csiVars>>

\* os.remove fails on at most one path per request
Denials == {{}} \cup {{p} : p \in CaptureFiles}

NextStore ==
    \/ Deliver
    \/ ListCaptures
    \/ \E n \in Names : GetCapture(n)
    \/ \E files \in FileLists : BatchDownload(files)
    \/ \E files \in FileLists, denied \in Denials : BatchDelete(files, denied)

SpecStore == InitStore /\ [][NextStore]_vars

(***************************************************************************)
(* The handles alone, under any sequence of calls                          *)
(***************************************************************************)
FsInitial == [p \in AllFiles |-> IF p = OutsideFile THEN InitContent ELSE NoFile]

InitLifecycle ==
    /\ fs = FsInitial
    /\ resp = NoResp
    /\ InitLife
    /\ InitServer
    /\ InitCsi

NextLifecycle ==
    \/ \E canOpen, canRead \in BOOLEAN : CallCamStart(canOpen, canRead)
    \/ \E canRead \in BOOLEAN, frame \in Frames : CallCamReadFrame(canRead, frame)
    \/ CallCamStop
    \/ \E popenOk, staysUp \in BOOLEAN : CallCsiStart(popenOk, staysUp)
    \/ CallCsiRead
    \/ CsiProcessExits
    \/ \E graceful \in BOOLEAN : CallCsiStop(graceful)

SpecLifecycle == InitLifecycle /\ [][NextLifecycle]_vars

(***************************************************************************)
(* The microscope server                                                   *)
(***************************************************************************)
Init ==
    /\ fs = FsInitial
    /\ resp = NoResp
    /\ InitLife
    /\ InitServer
    /\ InitCsi

Next ==
    \/ \E canOpen, canRead \in BOOLEAN : MainStart(canOpen, canRead)
    \/ \E c \in Clients : Stream(c)
    \/ \E c \in Clients, canRead, encoded \in BOOLEAN, frame \in Frames :
          StreamNext(c, canRead, frame, encoded)
    \/ \E c \in Clients : Disconnect(c)
    \/ \E c \in Clients : Forget(c)
    \/ \E canRead, written \in BOOLEAN, frame \in Frames : Capture(canRead, frame, written)
    \/ Deliver
    \/ Tick

Spec == Init /\ [][Next]_vars

(***************************************************************************)
(* The stream sessions of the microscope server alone                      *)
(***************************************************************************)
InitStreams ==
    /\ fs = FsInitial
    /\ resp = NoResp
    /\ InitLife
    /\ InitServer
    /\ InitCsi

NextStreams ==
    \/ \E canOpen, canRead \in BOOLEAN : MainStart(canOpen, canRead)
    \/ \E c \in Clients : Stream(c)
    \/ \E c \in Clients, canRead, encoded \in BOOLEAN, frame \in Frames :
          StreamNext(c, canRead, frame, encoded)
    \/ \E c \in Clients : Disconnect(c)
    \/ \E c \in Clients : Forget(c)

SpecStreams == InitStreams /\ [][NextStreams]_vars

(***************************************************************************)
(* The microscope server, thread by thread                                 *)
(***************************************************************************)
InitReads ==
    /\ fs = FsInitial
    /\ resp = NoResp
    /\ InitLife
    /\ InitServer
    /\ InitCsi

NextReads ==
    \/ \E canOpen, canRead \in BOOLEAN : MainStart(canOpen, canRead)
    \/ \E c \in Clients : Stream(c)
    \/ \E c \in Clients : StreamReadEnter(c)
    \/ \E c \in Clients, canRead, encoded \in BOOLEAN, frame \in Frames :
          StreamReadReturn(c, canRead, frame, encoded)
    \/ \E c \in Clients : Disconnect(c)
    \/ \E c \in Clients : Forget(c)
    \/ CaptureReadEnter
    \/ \E canRead, written \in BOOLEAN, frame \in Frames :
          CaptureReadReturn(canRead, frame, written)
    \/ Deliver
    \/ Tick

SpecReads == InitReads /\ [][NextReads]_vars

(***************************************************************************)
(* The microscope server under concurrent capture requests                 *)
(***************************************************************************)
InitCaptures ==
    /\ fs = FsInitial
    /\ resp = NoResp
    /\ InitLife
    /\ InitServer
    /\ InitCsi

NextCaptures ==
    \/ \E canOpen, canRead \in BOOLEAN : MainStart(canOpen, canRead)
    \/ \E c \in Clients : Stream(c)
    \/ \E c \in Clients, canRead, encoded \in BOOLEAN, frame \in Frames :
          StreamNext(c, canRead, frame, encoded)
    \/ \E k \in CaptureThreads : CapBegin(k)
    \/ \E k \in CaptureThreads, canRead \in BOOLEAN, frame \in Frames :
          CapRead(k, canRead, frame)
    \/ \E k \in CaptureThreads, opens \in BOOLEAN : CapWriteBegin(k, opens)
    \/ \E k \in CaptureThreads : CapWriteEnd(k)
    \/ \E k \in CaptureThreads : CapForget(k)
    \/ Tick

SpecCaptures == InitCaptures /\ [][NextCaptures]_vars

(***************************************************************************)
(* One CameraService used by reader threads and a thread calling stop()    *)
(***************************************************************************)
InitRace ==
    /\ fs = FsInitial
    /\ resp = NoResp
    /\ InitLife
    /\ InitServer
    /\ InitCsi

NextRace ==
    \/ \E canOpen, canRead \in BOOLEAN : MainStart(canOpen, canRead)
    \/ \E t \in Readers : RaceCheck(t)
    \/ \E t \in Readers, canRead \in BOOLEAN : RaceRead(t, canRead)
    \/ \E t \in Readers : RaceReturn(t)
    \/ RaceStopRelease
    \/ RaceStopClear
    \/ RaceStopReturn

SpecRace == InitRace /\ [][NextRace]_vars

(***************************************************************************)
(* The CSI server                                                          *)
(***************************************************************************)
InitCsiServer ==
    /\ fs = FsInitial
    /\ resp = NoResp
    /\ InitLife
    /\ InitServer
    /\ InitCsi

NextCsi ==
    \/ \E r \in Requests : CsiStreamBegin(r)
    \/ \E r \in Requests, popenOk \in BOOLEAN : CsiStreamSpawn(r, popenOk)
    \/ \E r \in Requests : CsiStreamPoll(r)
    \/ \E r \in Requests, graceful \in BOOLEAN : CsiStreamRead(r, graceful)
    \/ \E r \in Requests, graceful \in BOOLEAN : CsiStreamClose(r, graceful)
    \/ \E r \in Requests : CsiStreamAbandon(r)
    \/ \E r \in Requests : CsiProcExit(r)
    \/ \E r \in Requests : CsiCaptureRun(r)
    \/ \E r \in Requests, ok \in BOOLEAN, frame \in Frames : CsiCaptureDone(r, ok, frame)
    \/ Tick

SpecCSI == InitCsiServer /\ [][NextCsi]_vars

(***************************************************************************)
(* serve_capture of the CSI server: send_from_directory alone              *)
(***************************************************************************)
CsiServeCapture(f, filename) ==
    IF RouteMatches(filename) THEN SendFromDirectory(f, CapturesDir, filename)
    ELSE [status |-> 404, path |-> <<>>]

\* ---- model above, properties below ----

(***************************************************************************)
(* Properties of the capture store (SpecStore)                             *)
(***************************************************************************)
\* outcomes in which a file was read, archived or handed to os.remove
Touching == {"served", "archived", "deleted", "failed"}

LogIdx == 1..Len(resp.log)

HasDotDot(name) == \E i \in 1..Len(name.comps) : name.comps[i] = ".."

EndsInJpg(name) == name.comps # <<>> /\ Ext(name.comps[Len(name.comps)]) = ".jpg"

\* the names the claim speaks of
BadName(name) == HasDotDot(name) \/ name.abs \/ ~EndsInJpg(name)

\* the canonical path of a name, and whether it is a '.jpg' path strictly
\* inside the capture directory
Canonical(name) == Resolve(Join(CapturesDir, name))

StrictlyInside(p) ==
    /\ Len(p) > Len(CapturesDir)
    /\ \A i \in 1..Len(CapturesDir) : p[i] = CapturesDir[i]

Confined(name) == StrictlyInside(Canonical(name)) /\ Suffix(Canonical(name)) = ".jpg"

\* C1, as claimed: every name that contains '..', is absolute or does not
\* end in '.jpg' is rejected by view, batch download and batch delete, and
\* no file is read, archived or deleted for it.
C1_Original ==
    \A i \in LogIdx : BadName(resp.log[i].name) => resp.log[i].outcome \notin Touching

\* C1, amended: every name whose canonical path lies outside the capture
\* directory or does not end in '.jpg' is rejected by view, batch download
\* and batch delete, no file is read, archived or deleted for it, and the
\* only files a request changes are the canonical paths of names it accepted.
C1_PathConfinement ==
    ~Idle =>
      /\ \A i \in LogIdx :
            ~Confined(resp.log[i].name) => resp.log[i].outcome \notin Touching
      /\ \A p \in AllFiles :
            fs[p] # resp.before[p] =>
                \E i \in LogIdx : /\ Confined(resp.log[i].name)
                                  /\ Canonical(resp.log[i].name) = p
                                  /\ resp.log[i].outcome = "deleted"

\* a batch delete that rejected an escaping name whose target exists and
\* deleted another file of the same batch
C1_Witness ==
    /\ resp.op = "batch_delete"
    /\ \E i, j \in LogIdx :
          /\ resp.log[i].name = Rel(<<"..", "other.jpg">>)
          /\ resp.log[i].outcome = "rejected"
          /\ resp.log[j].outcome = "deleted"

\* the decision of each endpoint on one name: accept, reject, or abort the
\* request with an unhandled exception
Fresh(f) == [fs |-> f, deleted |-> 0, log |-> <<>>, entries |-> <<>>, raised |-> FALSE]

ViewClass(f, n) ==
    IF GetCaptureOutcome(f, n).outcome = "served" THEN "accept" ELSE "reject"

BatchClass(outcome) ==
    IF outcome \in {"archived", "deleted"} THEN "accept"
    ELSE IF outcome = "raised" THEN "abort" ELSE "reject"

DownloadClass(f, n) == BatchClass(DownloadStep(Fresh(f), n).log[1].outcome)

DeleteClass(f, n) == BatchClass(DeleteStep(Fresh(f), n, {}).log[1].outcome)

Removed == {p \in AllFiles : resp.before[p] # NoFile /\ fs[p] = NoFile}

Listed(f) == {ListNames(f)[i] : i \in 1..Len(ListNames(f))}

\* C10, as claimed: batch delete of a list of names answers with
\* requested = the length of the list and deleted = the number of files the
\* request removed, and no removed file is in a subsequent list(); three
\* names of which the first two exist give deleted 2, requested 3.
C10_Original ==
    (resp.op = "batch_delete" /\ resp.files # <<>>) =>
        /\ resp.status = 200
        /\ resp.counts
        /\ resp.requested = Len(resp.files)
        /\ resp.deleted = Cardinality(Removed)
        /\ \A p \in Removed : p[Len(p)] \notin Listed(fs)

\* the '.jpg' files directly in the capture directory
JpgInDir(f) ==
    {p \in AllFiles : /\ IsFile(f, p)
                      /\ Len(p) = Len(CapturesDir) + 1
                      /\ StrictlyInside(p)
                      /\ Suffix(p) = ".jpg"}

\* C18: list() returns exactly the names of the '.jpg' files that are in
\* the capture directory, each once, and in an order in which every name
\* comes before the names of all older captures (newest capture first).
C18_ListNewestFirst ==
    resp.op = "list" =>
        /\ resp.status = 200
        /\ {resp.listing[i] : i \in 1..Len(resp.listing)} =
              {p[Len(p)] : p \in JpgInDir(fs)}
        /\ Len(resp.listing) = Cardinality(JpgInDir(fs))
        /\ \A i, j \in 1..Len(resp.listing) :
              i < j => Rank(resp.listing[i]) > Rank(resp.listing[j])

\* a listing of several captures made across a carry of the seconds field,
\* with a file that is not a '.jpg' beside them
C18_Witness ==
    /\ resp.op = "list"
    /\ Len(resp.listing) >= 2
    /\ \E i, j \in 1..Len(resp.listing) :
          Stamp(Rank(resp.listing[i]))[1] # Stamp(Rank(resp.listing[j]))[1]
    /\ IsFile(fs, NotesFile)

\* the files the names of a request point at, for the names that stay inside
\* the capture directory and end in '.jpg'
AskedFor(files) ==
    {Canonical(files[i]) : i \in {j \in 1..Len(files) : Confined(files[j])}}

\* C26: after a batch delete every file that no accepted name of the request
\* resolves to is as it was before the request (present if it was present,
\* same content), no file outside the capture directory is changed, and
\* what is gone was asked for; batch download, view and list change no
\* file at all.
C26_DeleteOnlyAsked ==
    /\ resp.op = "batch_delete" =>
          /\ \A p \in AllFiles \ AskedFor(resp.files) : fs[p] = resp.before[p]
          /\ \A p \in AllFiles : ~StrictlyInside(p) => fs[p] = resp.before[p]
          /\ \A p \in AllFiles : fs[p] \in {resp.before[p], NoFile}
    /\ resp.op \in {"batch_download", "list", "view"} => fs = resp.before

\* a batch delete that removed the capture it was asked to remove, was also
\* given a name escaping the directory whose target exists, and left the
\* other capture, the notes file and the outside file in place
C26_Witness ==
    /\ resp.op = "batch_delete"
    /\ Cardinality(Removed) = 1
    /\ \E i \in 1..Len(resp.files) : Canonical(resp.files[i]) = OutsideFile
    /\ IsFile(fs, OutsideFile)
    /\ IsFile(fs, NotesFile)
    /\ \E p \in CaptureFiles \ AskedFor(resp.files) : IsFile(fs, p)

\* C11, as claimed: batch delete never aborts on a per-item problem: every
\* name of the list is processed, a name that is rejected, missing,
\* unresolvable or whose deletion fails is counted as not deleted, and the
\* request answers with the deleted/requested counts.
C11_Original ==
    (resp.op = "batch_delete" /\ resp.files # <<>>) =>
        /\ resp.counts
        /\ Len(resp.log) = Len(resp.files)
        /\ \A i \in LogIdx :
              resp.log[i].outcome \in {"deleted", "failed", "rejected", "skipped"}
        /\ resp.deleted = Cardinality({i \in LogIdx : resp.log[i].outcome = "deleted"})

\* the names of a list that are accepted and exist, in the order of the list
RECURSIVE Accepted(_, _)
Accepted(f, files) ==
    IF files = <<>> THEN <<>>
    ELSE LET n == Head(files) IN
         IF Confined(n) /\ IsFile(f, Canonical(n))
         THEN <<n>> \o Accepted(f, Tail(files))
         ELSE Accepted(f, Tail(files))

\* C12, as claimed: batch export of a list of names answers with one zip
\* archive whose entries are exactly the names of the list that are accepted
\* and exist, each entry named by that name and holding the content of the
\* source file; rejected or missing names are skipped without aborting.
C12_Original ==
    (resp.op = "batch_download" /\ resp.files # <<>>) =>
        LET want == Accepted(resp.before, resp.files) IN
        /\ resp.status = 200
        /\ Len(resp.entries) = Len(want)
        /\ \A i \in 1..Len(want) :
              /\ i <= Len(resp.entries)
              /\ ~want[i].abs
              /\ resp.entries[i].arcname = want[i].comps
              /\ resp.entries[i].data = resp.before[Canonical(want[i])]

(***************************************************************************)
(* Properties of the handles (SpecLifecycle)                               *)
(***************************************************************************)
HandleClosed ==
    /\ hist.obj = "cam" => cam = "None" /\ v4l = 0
    /\ hist.obj = "csi" => csi = NoProcess

\* C5: stop() is idempotent: from any state, a stop() and a second stop()
\* right after it raise nothing, the handle is Closed after each of them
\* (no camera object, no subprocess held), and the second one does nothing.
C5_StopIdempotent ==
    hist.op = "stop" =>
        /\ ~hist.raised
        /\ HandleClosed
        /\ hist.repeat >= 2 => (~hist.changed /\ hist.calls = <<>>)

\* the second of two stop() calls in a row on a CameraService
C5_Witness ==
    /\ hist.obj = "cam"
    /\ hist.op = "stop"
    /\ hist.repeat = 2

Has(calls, x) == \E i \in 1..Len(calls) : calls[i] = x

\* C6: stop() from any lifecycle state, also over a device that failed or a
\* process that already exited, releases the resource and leaves the handle
\* Closed; the subprocess is force-killed only after terminate and only
\* when the wait of the grace period timed out, and the handle is Closed on
\* the graceful and on the force-kill path.
C6_StopReleases ==
    hist.op = "stop" =>
        /\ HandleClosed
        /\ hist.obj = "csi" => csi.state # "running"
        /\ (hist.obj = "csi" /\ hist.pre # "none") => hist.calls[1] = "terminate"
        /\ Has(hist.calls, "kill") =>
              /\ hist.timedOut
              /\ hist.pre = "running"
              /\ hist.calls = <<"terminate", "wait", "kill">>
        /\ hist.timedOut => Has(hist.calls, "kill")

\* a stop() whose wait timed out and that force-killed the process
C6_Witness ==
    /\ hist.obj = "csi"
    /\ hist.op = "stop"
    /\ hist.timedOut
    /\ Has(hist.calls, "kill")

\* C7, as claimed: when start() reports failure, because the device cannot
\* be opened or because the verification read fails, the handle is Closed:
\* no device session or running subprocess is held, and read_frame fails.
C7_Original ==
    (hist.op = "start" /\ ~hist.result) =>
        /\ hist.obj = "cam" =>
              /\ v4l = 0
              /\ \A canRead \in BOOLEAN, frame \in Frames :
                    CamReadFrame(cam, canRead, frame) = NoFrame
        /\ hist.obj = "csi" => csi.state # "running"

\* what a start() that reports success did: the open, then the warm-up
\* reads, then one read that succeeded
WarmedAndVerified(calls) ==
    /\ Len(calls) = WarmupFrames + 2
    /\ calls[1] = "open"
    /\ \A i \in 2..(WarmupFrames + 1) : calls[i] = "discard"
    /\ calls[WarmupFrames + 2] = "read_ok"

\* C19, as claimed: start() of either camera service returns success only
\* after the device was opened, a fixed number of frames was read and
\* discarded and one further frame read succeeded, in this order.
C19_Original ==
    (hist.op = "start" /\ hist.result) => WarmedAndVerified(hist.calls)

\* C19, amended: CameraService.start() returns success only after the open
\* succeeded, three frames were read and discarded and one further read
\* succeeded, in this order; CSICameraService.start() returns success only
\* after rpicam-vid was spawned and was found running one second later, and
\* it reads no frame.
C19_ReadyAfterChecks ==
    (hist.op = "start" /\ hist.result) =>
        /\ hist.obj = "cam" => (WarmedAndVerified(hist.calls) /\ IsOpened(cam))
        /\ hist.obj = "csi" =>
              /\ hist.calls = <<"Popen", "sleep", "poll">>
              /\ csi = [process |-> "held", state |-> "running"]

\* a CameraService.start() that succeeded on a handle that was closed
C19_Witness ==
    /\ hist.obj = "cam"
    /\ hist.op = "start"
    /\ hist.result
    /\ hist.pre = "None"
    /\ Len(hist.calls) = 5

\* C22: a frame read, failed or not, changes nothing in the device handle:
\* read_frame() and a stream read that finds the end of the data leave the
\* camera object, the device session and the subprocess exactly as they
\* were, and a handle that held something is cleared by stop() alone.
C22_ReadLeavesHandle ==
    [][/\ hist'.op = "read" => (cam' = cam /\ v4l' = v4l /\ csi' = csi)
       /\ (cam # "None" /\ cam' = "None") => hist'.op = "stop"
       /\ (csi.process # "None" /\ csi'.process = "None") => hist'.op = "stop"]_vars

\* a read_frame() that failed on an open camera, which is still open, and a
\* stream read that found the pipe of an exited process at its end
C22_Witness ==
    \/ /\ hist.obj = "cam" /\ hist.op = "read" /\ ~hist.result
       /\ hist.pre = "openObj" /\ IsOpened(cam) /\ v4l = 1
    \/ /\ hist.obj = "csi" /\ hist.op = "read" /\ ~hist.result
       /\ hist.pre = "exited" /\ csi.process = "held"

(***************************************************************************)
(* Properties of the CSI server (SpecCSI)                                  *)
(***************************************************************************)
\* the stream requests that came in before any open was made
FirstStreams == {r \in Requests : req[r].kind = "stream" /\ req[r].first}

\* C3, as claimed: the stream requests that arrive while the device has
\* never been opened lead to exactly one physical open between them (here:
\* when every Popen they call returns a process).
C3_Original ==
    (FirstStreams # {} /\ \A r \in FirstStreams : req[r].spawned) =>
        Cardinality({r \in FirstStreams : req[r].opened}) = 1

\* the camera subprocesses alive: rpicam-vid of a stream, rpicam-still of a
\* capture
LiveCameraProcesses ==
    Cardinality({r \in Requests : CsiAlive(req[r].h)}) +
    Cardinality({r \in Requests : req[r].pc = "still"})

\* C4, as claimed: at most one physical device session is open at any time.
C4_Original == LiveCameraProcesses <= 1

\* C17, as claimed: no camera subprocess started by a /stream request is
\* left running once that response has ended, whichever way it ended.
C17_Original ==
    \A r \in Requests :
        (req[r].kind = "stream" /\ req[r].pc = "done") => ~CsiAlive(req[r].h)

\* C24, as claimed: once a stream session has started, a failed read ends
\* it silently: the response ends with the generator, and every chunk that
\* was written is a complete part: boundary, header and JPEG payload.
C24_Original ==
    \A r \in Requests :
        (req[r].kind = "stream" /\ req[r].chunks > 0) =>
            /\ req[r].status = 200
            /\ req[r].lastChunk.boundary
            /\ req[r].lastChunk.header

(***************************************************************************)
(* Properties of the microscope server (Spec)                              *)
(***************************************************************************)
StartCalls == IF hist.op = "start" THEN hist.repeat ELSE 0

\* C8, as claimed: a stream request that needs the device after the open
\* attempt failed leads to a new open attempt.
C8_Original ==
    \A c \in Clients :
        (strm[c].pc # "idle" /\ strm[c].afterFailedStart /\ ~strm[c].devOpen)
            => StartCalls >= 2

\* C9, as claimed: a /stream request handled while the device is not open is
\* answered with a server-error status and never writes a chunk.
C9_Original ==
    \A c \in Clients :
        (strm[c].pc # "idle" /\ ~strm[c].devOpen)
            => (strm[c].status >= 500 /\ strm[c].chunks = 0)

\* a capture request that was answered, and the outcome of its write step
CaptureAnswered == resp.op = "capture"

CaptureFailed ==
    /\ CaptureAnswered
    /\ (resp.log = <<>> \/ resp.log[1].outcome = "unwritten")

\* C13, as claimed: whenever a capture request reports success with a
\* filename, a file of that name exists in the capture directory, fully
\* written and of nonzero size, when the response is produced.
C13_Original ==
    (CaptureAnswered /\ resp.status = 200) =>
        /\ resp.files # <<>>
        /\ resp.log[1].path = CapturesDir \o resp.files[1].comps
        /\ IsFile(fs, resp.log[1].path)
        /\ fs[resp.log[1].path] > 0

\* C14, as claimed: whenever a capture fails (the device is not open, the
\* frame read fails or the write step fails) the request is answered with an
\* error status and the capture directory holds no new or changed file.
C14_Original ==
    CaptureFailed =>
        /\ resp.status >= 400
        /\ fs = resp.before

\* C15, as claimed: capture files are never overwritten: every successful
\* capture creates a file name that did not exist before and leaves every
\* existing file as it was, also for two captures in the same second.
C15_Original ==
    (CaptureAnswered /\ resp.status = 200 /\ ~CaptureFailed) =>
        /\ resp.before[resp.log[1].path] = NoFile
        /\ \A p \in AllFiles : resp.before[p] # NoFile => fs[p] = resp.before[p]

\* C16: a client that disconnects mid-stream ends only its own session: the
\* step that ends its pull loop leaves every other stream session as it was
\* (so it goes on pulling frames) and does not stop or release the shared
\* camera.
C16_DisconnectIsLocal ==
    [][\A c \in Clients :
          (strm[c].pc = "streaming" /\ strm'[c].pc = "ended"
              /\ strm'[c].closedBy = "client")
          => /\ cam' = cam
             /\ v4l' = v4l
             /\ \A d \in Clients \ {c} : strm'[d] = strm[d]]_vars

\* one client left after it had received a chunk while another session on
\* the open camera has received chunks and is still streaming
C16_Witness ==
    \E c, d \in Clients :
        /\ c # d
        /\ strm[c].pc = "ended" /\ strm[c].closedBy = "client" /\ strm[c].chunks >= 1
        /\ strm[d].pc = "streaming" /\ strm[d].chunks >= 1
        /\ IsOpened(cam) /\ v4l = 1

(***************************************************************************)
(* Properties of the microscope server, thread by thread (SpecReads)       *)
(***************************************************************************)
\* C20, as claimed: physical frame reads on the shared camera are mutually
\* exclusive: no two of the stream sessions and capture requests are inside
\* the device read at the same time.
C20_Original == Cardinality(rd) <= 1

(***************************************************************************)
(* Properties of concurrent captures (SpecCaptures)                        *)
(***************************************************************************)
\* a capture that is between reading its frame and completing its file
InCaptureSection(k) == cap[k].pc \in {"read", "write", "writing"}

\* C21, as claimed: capture operations are serialized: no two captures are
\* in their read-encode-write section at the same time, also while a stream
\* is running, so no two captures write the same file at the same time.
C21_Original ==
    \A k, j \in CaptureThreads :
        (k # j /\ InCaptureSection(k)) => ~InCaptureSection(j)

(***************************************************************************)
(* Properties of the stream sessions (SpecStreams)                         *)
(***************************************************************************)
\* C23: in a stream session an encode failure skips only that frame: the
\* step in which the encoding fails writes no chunk and leaves the session
\* streaming, however many encode failures came before it.
C23_EncodeFailureSkips ==
    [][\A c \in Clients :
          strm'[c].skips > strm[c].skips
          => /\ strm'[c].pc = "streaming"
             /\ strm'[c].chunks = strm[c].chunks]_vars

\* a session that is still streaming and has received chunks after several
\* encode failures
C23_Witness ==
    \E c \in Clients :
        /\ strm[c].pc = "streaming"
        /\ strm[c].skips = MaxSkips
        /\ strm[c].chunks = MaxChunks

(***************************************************************************)
(* Properties of read_frame() racing with stop() (SpecRace)                *)
(***************************************************************************)
\* C25, as claimed: a reader never uses a handle that stop() has released
\* or cleared: every self.camera.read() it makes is made on the open
\* camera, and it ends with a frame or a reported failure, never with an
\* exception.
C25_Original ==
    \A t \in Readers :
        (rc.readers[t].pc = "done" /\ rc.readers[t].handle # "none") =>
            /\ rc.readers[t].handle = "openObj"
            /\ rc.readers[t].result \in {"frame", "none"}

====
